---------------------------- MODULE Spec2Model ----------------------------
(***************************************************************************)
(* Model of the Felaco site-builder backend: the Site / Page / Section     *)
(* controllers, the AICredits ledger and the Payment bridge.               *)
(*                                                                         *)
(* The ORM repository is modelled as the persistence interface the         *)
(* controllers call: findOne / find / count see only rows that are not     *)
(* soft-removed, save inserts or overwrites a row, update writes the given *)
(* columns of the matching rows, softRemove marks a row removed.  A save   *)
(* of an entity whose one-to-many relation (Site.pages, Page.sections,     *)
(* both declared cascade: true) holds loaded rows attaches those rows to   *)
(* the saved entity, as the relation's persistence does.  Schema           *)
(* level constraints of a concrete database are not part of the model:     *)
(* every uniqueness / cardinality rule checked here is the one the         *)
(* controllers enforce themselves.                                         *)
(*                                                                         *)
(* Strings are sequences of one-character strings.  Ids are row numbers.   *)
(***************************************************************************)
EXTENDS Integers, Sequences, FiniteSets, TLC

VARIABLES sites, pages, sections, resp, nreq, ledger, now, cresp,
          payments, stripe, presp, repeated, procs,
          redis, clock, issued, spent, revoked, aresp

store == <<sites, pages, sections>>
siteVars == <<sites, pages, sections, resp>>
creditVars == <<ledger, now, cresp>>
payVars == <<payments, stripe, presp>>
\* repeated: the request just handled is the one handled before it;
\* procs: the requests in flight when handlers run concurrently
flightVars == <<repeated, procs>>
\* redis: the refresh_token:<user id> keys; clock: the time in seconds that
\* stamps a token; issued: every refresh token handed out so far; spent: the
\* tokens presented in a successful refresh; revoked: the tokens issued to a
\* user before their last logout or password reset and not followed by a login
authVars == <<redis, clock, issued, spent, revoked, aresp>>
vars == <<sites, pages, sections, resp, nreq, ledger, now, cresp, payments, stripe, presp,
          repeated, procs, redis, clock, issued, spent, revoked, aresp>>

-----------------------------------------------------------------------------
(* Bounds of the model *)

MaxSiteRows == 2
MaxPageRows == 4
MaxSectionRows == 2
MaxReorderLen == 2
MaxOrder == 1
\* requests handled in one run of the model
MaxRequests == 4

-----------------------------------------------------------------------------
(* Principals and their plan limits *)

Users == {"u1", "u2"}
NoPlan == [none |-> TRUE]
UserPlan ==
  [u \in Users |->
     IF u = "u1" THEN [maxSites |-> 1, maxPagesPerSite |-> 3, maxSectionsPerPage |-> 2]
     ELSE NoPlan]

DefaultMaxSites == 10
DefaultMaxPages == 50
DefaultMaxSections == 50

\* user.plan?.maxSites || 10 : a missing plan and a zero limit both give the default
maxSitesOf(u) ==
  IF "maxSites" \in DOMAIN UserPlan[u] /\ UserPlan[u].maxSites # 0
  THEN UserPlan[u].maxSites ELSE DefaultMaxSites
maxPagesOf(u) ==
  IF "maxPagesPerSite" \in DOMAIN UserPlan[u] /\ UserPlan[u].maxPagesPerSite # 0
  THEN UserPlan[u].maxPagesPerSite ELSE DefaultMaxPages
maxSectionsOf(u) ==
  IF "maxSectionsPerPage" \in DOMAIN UserPlan[u] /\ UserPlan[u].maxSectionsPerPage # 0
  THEN UserPlan[u].maxSectionsPerPage ELSE DefaultMaxSections

-----------------------------------------------------------------------------
(* Strings and the slug generator *)

Min2(a, b) == IF a < b THEN a ELSE b

UpperSeq == <<"A","B","C","D","E","F","G","H","I","J","K","L","M",
              "N","O","P","Q","R","S","T","U","V","W","X","Y","Z">>
LowerSeq == <<"a","b","c","d","e","f","g","h","i","j","k","l","m",
              "n","o","p","q","r","s","t","u","v","w","x","y","z">>
DigitSeq == <<"0","1","2","3","4","5","6","7","8","9">>
Range(s) == {s[i] : i \in DOMAIN s}

toLowerCase(s) ==
  [i \in DOMAIN s |->
     IF s[i] \in Range(UpperSeq)
     THEN LowerSeq[CHOOSE k \in DOMAIN UpperSeq : UpperSeq[k] = s[i]]
     ELSE s[i]]

\* \s and \w of the regular expressions
WhiteSpace == {" ", "\t", "\n"}
WordChars == Range(UpperSeq) \cup Range(LowerSeq) \cup Range(DigitSeq) \cup {"_"}

RECURSIVE DropWhileIn(_, _)
DropWhileIn(s, S) ==
  IF s = <<>> THEN <<>>
  ELSE IF Head(s) \in S THEN DropWhileIn(Tail(s), S) ELSE s

\* replace(/[S]+/g, rep) : every maximal run of characters of S becomes rep
RECURSIVE ReplaceRuns(_, _, _)
ReplaceRuns(s, S, rep) ==
  IF s = <<>> THEN <<>>
  ELSE IF Head(s) \in S
       THEN rep \o ReplaceRuns(DropWhileIn(Tail(s), S), S, rep)
       ELSE <<Head(s)>> \o ReplaceRuns(Tail(s), S, rep)

\* replace(/[^\w\-]+/g, '')
StripNonWord(s) == SelectSeq(s, LAMBDA c : c \in WordChars \cup {"-"})

RECURSIVE TrimRight(_)
TrimRight(s) ==
  IF s = <<>> THEN <<>>
  ELSE IF s[Len(s)] = "-" THEN TrimRight(SubSeq(s, 1, Len(s) - 1)) ELSE s

generateSlug(text) ==
  LET s1 == toLowerCase(text)
      s2 == ReplaceRuns(s1, WhiteSpace, <<"-">>)
      s3 == StripNonWord(s2)
      s4 == ReplaceRuns(s3, {"-"}, <<"-">>)
      s5 == DropWhileIn(s4, {"-"})
  IN TrimRight(s5)

\* Math.random().toString(36) is "0." followed by base-36 digits; the model
\* draws the digits from RandomDigits
RandomDigits == { <<"k","3","x","9","a","b","c">> }
randomToString36(r) == <<"0", ".">> \o r
substring(s, a, b) == SubSeq(s, a + 1, Min2(b, Len(s)))

siteSuffix_fourChars(r) == substring(randomToString36(r), 2, 6)
siteSuffix(r) == substring(randomToString36(r), 2, 8)
pageSuffix(r) == substring(randomToString36(r), 2, 6)

SiteNames == { <<"A">>, <<"a"," ","i">> }
PageTitles == { <<"H","o","m","e">>, <<"A">> }
HomeTitle == <<"H","o","m","e">>
HomeSlug == <<"h","o","m","e">>

-----------------------------------------------------------------------------
(* Repository queries *)

SiteIds == 1..MaxSiteRows
PageIds == 1..MaxPageRows
SectionIds == 1..MaxSectionRows
\* an optional field of a DTO: Undefined when absent, Some(v) when given
Undefined == <<>>
Some(v) == <<v>>
Opt(S) == {Some(v) : v \in S} \cup {Undefined}

LiveSites == {i \in DOMAIN sites : ~sites[i].deleted}
LivePages == {i \in DOMAIN pages : ~pages[i].deleted}
LiveSections == {i \in DOMAIN sections : ~sections[i].deleted}

\* siteRepository.findOne({ where: { id, owner: user } })
findOwnedSite_anyOwner(id, u) == id \in LiveSites
findOwnedSite(id, u) == id \in LiveSites /\ sites[id].owner = u
\* siteRepository.count({ owner: user })
countSitesOf(u) == Cardinality({i \in LiveSites : sites[i].owner = u})
\* siteRepository.findOne({ where: { slug } })
siteSlugExists(slug) == \E i \in LiveSites : sites[i].slug = slug
\* pageRepository.count({ site })
PagesOf(s) == {i \in LivePages : pages[i].site = s}
countPagesOf(s) == Cardinality(PagesOf(s))
\* pageRepository.findOne({ where: { slug, site: site.id } })
pageSlugExists(slug, s) == \E i \in PagesOf(s) : pages[i].slug = slug
\* sectionRepository.count({ page })
SectionsOf(p) == {i \in LiveSections : sections[i].page = p}
countSectionsOf(p) == Cardinality(SectionsOf(p))

-----------------------------------------------------------------------------
(* Responses *)

Ok == "Ok"
NotFound == "NotFound"
Forbidden == "Forbidden"
BadRequest == "BadRequest"
InternalError == "InternalError"
Unauthorized == "Unauthorized"
ErrorStatuses == {NotFound, Forbidden, BadRequest, InternalError}

\* op, principal, target id, status, id of the entity in the data field of the
\* envelope (0 when the envelope carries none), limit named by the message
Response(op, u, target, status, data, limit) ==
  [op |-> op, user |-> u, target |-> target, status |-> status,
   data |-> data, limit |-> limit]

NoResponse == Response("none", "u1", <<>>, Ok, 0, 0)

-----------------------------------------------------------------------------
(* SiteController *)

\* a jsonb column: the keys it holds and their values
EmptyBlob == [k \in {} |-> ""]
\* { ...(stored || {}), ...supplied }
mergeBlob_replace(stored, supplied) == supplied
mergeBlob(stored, supplied) ==
  [k \in (DOMAIN stored) \cup (DOMAIN supplied) |->
     IF k \in DOMAIN supplied THEN supplied[k] ELSE stored[k]]

NewSite(u, name, slug) ==
  [owner |-> u, name |-> name, slug |-> slug, status |-> "draft", seo |-> EmptyBlob,
   deleted |-> FALSE]

NewPage(s, title, slug, home, ord) ==
  [site |-> s, title |-> title, slug |-> slug, isHomepage |-> home,
   order |-> ord, seo |-> EmptyBlob, deleted |-> FALSE]

\* userSiteCount >= maxSites
siteLimitReached_offByOne(u) == countSitesOf(u) > maxSitesOf(u)
siteLimitReached(u) == countSitesOf(u) >= maxSitesOf(u)

createSite(u, name, r) ==
  IF siteLimitReached(u)
  THEN /\ resp' = Response("createSite", u, <<>>, Forbidden, 0, maxSitesOf(u))
       /\ UNCHANGED store
  ELSE LET cand == generateSlug(name)
           slug == IF siteSlugExists(cand) THEN cand \o <<"-">> \o siteSuffix(r) ELSE cand
           id == Len(sites) + 1
       IN /\ Len(sites) < MaxSiteRows
          /\ Len(pages) < MaxPageRows
          /\ sites' = Append(sites, NewSite(u, name, slug))
          /\ pages' = Append(pages, NewPage(id, HomeTitle, HomeSlug, TRUE, 0))
          /\ resp' = Response("createSite", u, <<id>>, Ok, id, 0)
          /\ UNCHANGED sections

getSite(u, id) ==
  /\ resp' = IF findOwnedSite(id, u)
             THEN Response("getSite", u, <<id>>, Ok, id, 0)
             ELSE Response("getSite", u, <<id>>, NotFound, 0, 0)
  /\ UNCHANGED store

\* where: { id, owner: user } misses -> NotFoundError('Site not found')
updateSite(u, id, name, status, seo) ==
  IF ~findOwnedSite(id, u)
  THEN /\ resp' = Response("updateSite", u, <<id>>, NotFound, 0, 0)
       /\ UNCHANGED store
  ELSE LET site == sites[id]
           \* site.name = dto.name is assigned before the comparison
           s1 == IF name # Undefined THEN [site EXCEPT !.name = name[1]] ELSE site
           s2 == IF name # Undefined /\ name[1] # s1.name
                 THEN [s1 EXCEPT !.slug = generateSlug(name[1])]
                 ELSE s1
           s3 == IF status # Undefined THEN [s2 EXCEPT !.status = status[1]] ELSE s2
           s4 == IF seo # Undefined THEN [s3 EXCEPT !.seo = mergeBlob(@, seo[1])] ELSE s3
       IN /\ sites' = [sites EXCEPT ![id] = s4]
          /\ resp' = Response("updateSite", u, <<id>>, Ok, id, 0)
          /\ UNCHANGED <<pages, sections>>

publishSite(u, id, status) ==
  IF ~findOwnedSite(id, u)
  THEN /\ resp' = Response("publishSite", u, <<id>>, NotFound, 0, 0)
       /\ UNCHANGED store
  ELSE /\ sites' = [sites EXCEPT ![id].status = status]
       /\ resp' = Response("publishSite", u, <<id>>, Ok, id, 0)
       /\ UNCHANGED <<pages, sections>>

\* the ids of S as the relation loader returns them (by row)
RECURSIVE IdsOf(_)
IdsOf(S) ==
  IF S = {} THEN <<>>
  ELSE LET m == CHOOSE x \in S : \A y \in S : x <= y
       IN <<m>> \o IdsOf(S \ {m})

\* save(entity) with entity.pages / entity.sections holding the loaded rows
\* of another parent: the relation's rows get the saved entity as parent
attachPages(ps, from, to) ==
  [i \in DOMAIN ps |->
     IF ~ps[i].deleted /\ ps[i].site = from THEN [ps[i] EXCEPT !.site = to] ELSE ps[i]]
attachSections(secs, from, to) ==
  [i \in DOMAIN secs |->
     IF ~secs[i].deleted /\ secs[i].page = from THEN [secs[i] EXCEPT !.page = to]
     ELSE secs[i]]
\* pageRepository.save(newPage) for the k-th and later copied pages
RECURSIVE attachAll(_, _, _, _)
attachAll(secs, ids, k, firstNewPage) ==
  IF k > Len(ids) THEN secs
  ELSE attachAll(attachSections(secs, ids[k], firstNewPage + k - 1), ids, k + 1, firstNewPage)

\* Object.assign(newPage, page) for every page of ids, attached to newSite
CopyPages(ids, newSite) ==
  [k \in 1..Len(ids) |->
     LET page == pages[ids[k]]
     IN [page EXCEPT !.site = newSite,
                     !.slug = IF page.isHomepage THEN HomeSlug ELSE page.slug]]

\* Object.assign(newSection, section) for the sections of every copied page
RECURSIVE CopySections(_, _, _)
CopySections(ids, k, firstNewPage) ==
  IF k > Len(ids) THEN <<>>
  ELSE LET secs == IdsOf(SectionsOf(ids[k]))
       IN [j \in 1..Len(secs) |->
             [sections[secs[j]] EXCEPT !.page = firstNewPage + k - 1]]
          \o CopySections(ids, k + 1, firstNewPage)

duplicateSite(u, id, name, duplicateContent, r) ==
  IF ~findOwnedSite(id, u)
  THEN /\ resp' = Response("duplicateSite", u, <<id>>, NotFound, 0, 0)
       /\ UNCHANGED store
  ELSE IF siteLimitReached(u)
  THEN /\ resp' = Response("duplicateSite", u, <<id>>, Forbidden, 0, maxSitesOf(u))
       /\ UNCHANGED store
  ELSE LET cand == generateSlug(name)
           slug == IF siteSlugExists(cand) THEN cand \o <<"-">> \o siteSuffix(r) ELSE cand
           newId == Len(sites) + 1
           newSite == [sites[id] EXCEPT !.name = name, !.slug = slug, !.status = "draft"]
           srcPages == IF duplicateContent THEN IdsOf(PagesOf(id)) ELSE <<>>
           newPages == CopyPages(srcPages, newId)
           newSections == CopySections(srcPages, 1, Len(pages) + 1)
       IN /\ Len(sites) < MaxSiteRows
          /\ Len(pages) + Len(newPages) <= MaxPageRows
          /\ Len(sections) + Len(newSections) <= MaxSectionRows
          /\ sites' = Append(sites, newSite)
          \* save(newSite): newSite.pages is site.pages
          /\ pages' = attachPages(pages, id, newId) \o newPages
          \* save(newPage): newPage.sections is page.sections
          /\ sections' = attachAll(sections, srcPages, 1, Len(pages) + 1) \o newSections
          /\ resp' = Response("duplicateSite", u, <<id>>, Ok, newId, 0)

\* newOwnerSiteCount >= maxSites
ownerLimitReached_offByOne(newOwnerId) == countSitesOf(newOwnerId) > maxSitesOf(newOwnerId)
ownerLimitReached(newOwnerId) == countSitesOf(newOwnerId) >= maxSitesOf(newOwnerId)

transferOwnership(u, id, newOwnerId) ==
  IF ~findOwnedSite(id, u)
  THEN /\ resp' = Response("transferOwnership", u, <<id>>, NotFound, 0, 0)
       /\ UNCHANGED store
  ELSE IF newOwnerId \notin Users \/ newOwnerId = u
  THEN /\ resp' = Response("transferOwnership", u, <<id>>, BadRequest, 0, 0)
       /\ UNCHANGED store
  ELSE IF ownerLimitReached(newOwnerId)
  THEN /\ resp' = Response("transferOwnership", u, <<id>>, BadRequest, 0, maxSitesOf(newOwnerId))
       /\ UNCHANGED store
  ELSE /\ sites' = [sites EXCEPT ![id].owner = newOwnerId]
       /\ resp' = Response("transferOwnership", u, <<id>>, Ok, id, 0)
       /\ UNCHANGED <<pages, sections>>

\* softRemove(site): the site was loaded without its pages, so only the
\* site row is marked removed
deleteSite(u, id) ==
  IF ~findOwnedSite(id, u)
  THEN /\ resp' = Response("deleteSite", u, <<id>>, NotFound, 0, 0)
       /\ UNCHANGED store
  ELSE /\ sites' = [sites EXCEPT ![id].deleted = TRUE]
       /\ resp' = Response("deleteSite", u, <<id>>, Ok, 0, 0)
       /\ UNCHANGED <<pages, sections>>

-----------------------------------------------------------------------------
(* PageController *)

\* pageRepository.findOne({ where: { id }, relations: ['site'] })
findPage(id) == id \in LivePages

getPage(u, id) ==
  /\ resp' = IF ~findPage(id) THEN Response("getPage", u, <<id>>, NotFound, 0, 0)
             ELSE IF ~findOwnedSite(pages[id].site, u)
                  THEN Response("getPage", u, <<id>>, Forbidden, 0, 0)
                  ELSE Response("getPage", u, <<id>>, Ok, id, 0)
  /\ UNCHANGED store

\* pageRepository.update({ site, isHomepage: true }, { isHomepage: false }),
\* leaving out the row `except` (0 leaves out none)
unsetHomepage(ps, s, except) ==
  [i \in DOMAIN ps |->
     IF ~ps[i].deleted /\ ps[i].site = s /\ ps[i].isHomepage /\ i # except
     THEN [ps[i] EXCEPT !.isHomepage = FALSE]
     ELSE ps[i]]

createPage(u, siteId, title, isHomepage, order, r) ==
  IF ~findOwnedSite(siteId, u)
  THEN /\ resp' = Response("createPage", u, <<siteId>>, NotFound, 0, 0)
       /\ UNCHANGED store
  ELSE IF countPagesOf(siteId) >= maxPagesOf(u)
  THEN /\ resp' = Response("createPage", u, <<siteId>>, Forbidden, 0, maxPagesOf(u))
       /\ UNCHANGED store
  ELSE LET cand == generateSlug(title)
           slug == IF pageSlugExists(cand, siteId)
                   THEN cand \o <<"-">> \o pageSuffix(r) ELSE cand
           \* createPageDto.isHomepage || false
           home == IF isHomepage = Undefined THEN FALSE ELSE isHomepage[1]
           \* createPageDto.order || 0
           ord == IF order = Undefined THEN 0 ELSE order[1]
           ps1 == IF home THEN unsetHomepage(pages, siteId, 0) ELSE pages
           id == Len(pages) + 1
       IN /\ Len(pages) < MaxPageRows
          /\ pages' = Append(ps1, NewPage(siteId, title, slug, home, ord))
          /\ resp' = Response("createPage", u, <<siteId>>, Ok, id, 0)
          /\ UNCHANGED <<sites, sections>>

updatePage(u, id, title, isHomepage, order, seo) ==
  IF ~findPage(id)
  THEN /\ resp' = Response("updatePage", u, <<id>>, NotFound, 0, 0)
       /\ UNCHANGED store
  ELSE IF ~findOwnedSite(pages[id].site, u)
  THEN /\ resp' = Response("updatePage", u, <<id>>, Forbidden, 0, 0)
       /\ UNCHANGED store
  ELSE LET page == pages[id]
           siteId == page.site
           \* page.title = dto.title is assigned before the comparison
           p1 == IF title # Undefined THEN [page EXCEPT !.title = title[1]] ELSE page
           p2 == IF title # Undefined /\ title[1] # p1.title
                 THEN [p1 EXCEPT !.slug = generateSlug(title[1])]
                 ELSE p1
           ps1 == IF isHomepage = Some(TRUE) THEN unsetHomepage(pages, siteId, id) ELSE pages
           p3 == IF isHomepage # Undefined THEN [p2 EXCEPT !.isHomepage = isHomepage[1]] ELSE p2
           p4 == IF order # Undefined THEN [p3 EXCEPT !.order = order[1]] ELSE p3
           p5 == IF seo # Undefined THEN [p4 EXCEPT !.seo = mergeBlob(@, seo[1])] ELSE p4
       IN /\ pages' = [ps1 EXCEPT ![id] = p5]
          /\ resp' = Response("updatePage", u, <<id>>, Ok, id, 0)
          /\ UNCHANGED <<sites, sections>>

\* Object.assign(newPage, page); title, slug; newPage.isHomepage = false
duplicateOf_keepsHomepage(page, title, slug) ==
  [page EXCEPT !.title = title, !.slug = slug]
duplicateOf(page, title, slug) ==
  [page EXCEPT !.title = title, !.slug = slug, !.isHomepage = FALSE]

duplicatePage(u, id, title, duplicateContent, r) ==
  IF ~findPage(id)
  THEN /\ resp' = Response("duplicatePage", u, <<id>>, NotFound, 0, 0)
       /\ UNCHANGED store
  ELSE IF ~findOwnedSite(pages[id].site, u)
  THEN /\ resp' = Response("duplicatePage", u, <<id>>, Forbidden, 0, 0)
       /\ UNCHANGED store
  ELSE IF countPagesOf(pages[id].site) >= maxPagesOf(u)
  THEN /\ resp' = Response("duplicatePage", u, <<id>>, Forbidden, 0, maxPagesOf(u))
       /\ UNCHANGED store
  ELSE LET siteId == pages[id].site
           cand == generateSlug(title)
           slug == IF pageSlugExists(cand, siteId)
                   THEN cand \o <<"-">> \o pageSuffix(r) ELSE cand
           newId == Len(pages) + 1
           newPage == duplicateOf(pages[id], title, slug)
           secs == IF duplicateContent THEN IdsOf(SectionsOf(id)) ELSE <<>>
           newSections == [j \in 1..Len(secs) |-> [sections[secs[j]] EXCEPT !.page = newId]]
       IN /\ Len(pages) < MaxPageRows
          /\ Len(sections) + Len(newSections) <= MaxSectionRows
          /\ pages' = Append(pages, newPage)
          \* save(newPage): newPage.sections is page.sections
          /\ sections' = attachSections(sections, id, newId) \o newSections
          /\ resp' = Response("duplicatePage", u, <<id>>, Ok, newId, 0)
          /\ UNCHANGED sites

\* pageRepository.update(pageId, { order: index }) for every listed id
writeOrder_oneBased(rows, ids) ==
  [i \in DOMAIN rows |->
     IF \E k \in DOMAIN ids : ids[k] = i
     THEN [rows[i] EXCEPT !.order = CHOOSE k \in DOMAIN ids : ids[k] = i]
     ELSE rows[i]]
writeOrder_shift(rows, ids) ==
  [i \in DOMAIN rows |->
     IF \E k \in DOMAIN ids : ids[k] = i
     THEN [rows[i] EXCEPT !.order = @ + (CHOOSE k \in DOMAIN ids : ids[k] = i) - 1]
     ELSE rows[i]]
writeOrder(rows, ids) ==
  [i \in DOMAIN rows |->
     IF \E k \in DOMAIN ids : ids[k] = i
     THEN [rows[i] EXCEPT !.order = (CHOOSE k \in DOMAIN ids : ids[k] = i) - 1]
     ELSE rows[i]]

reorderPages(u, pageIds) ==
  LET found == {i \in LivePages : i \in Range(pageIds)}
  IN IF Len(pageIds) = 0
     THEN /\ resp' = Response("reorderPages", u, pageIds, BadRequest, 0, 0)
          /\ UNCHANGED store
     ELSE IF Cardinality(found) # Len(pageIds)
     THEN /\ resp' = Response("reorderPages", u, pageIds, BadRequest, 0, 0)
          /\ UNCHANGED store
     ELSE IF \E i \in found : ~findOwnedSite(pages[i].site, u)
     THEN /\ resp' = Response("reorderPages", u, pageIds, Forbidden, 0, 0)
          /\ UNCHANGED store
     ELSE /\ pages' = writeOrder(pages, pageIds)
          /\ resp' = Response("reorderPages", u, pageIds, Ok, 0, 0)
          /\ UNCHANGED <<sites, sections>>

\* pageCount <= 1
isLastPage_offByOne(s) == countPagesOf(s) < 1
isLastPage(s) == countPagesOf(s) <= 1

\* findOne({ where: { site, id: Not(id) } }) has no order clause: the store
\* may return any other page of the site
deletePage(u, id, anotherPage) ==
  IF ~findPage(id)
  THEN /\ resp' = Response("deletePage", u, <<id>>, NotFound, 0, 0)
       /\ UNCHANGED store
  ELSE IF ~findOwnedSite(pages[id].site, u)
  THEN /\ resp' = Response("deletePage", u, <<id>>, Forbidden, 0, 0)
       /\ UNCHANGED store
  ELSE IF isLastPage(pages[id].site)
  THEN /\ resp' = Response("deletePage", u, <<id>>, BadRequest, 0, 0)
       /\ UNCHANGED store
  ELSE LET others == PagesOf(pages[id].site) \ {id}
           \* if (anotherPage) { anotherPage.isHomepage = true }
           ps1 == IF pages[id].isHomepage /\ others # {}
                  THEN [pages EXCEPT ![anotherPage].isHomepage = TRUE]
                  ELSE pages
       IN /\ IF others # {} THEN anotherPage \in others ELSE anotherPage = id
          /\ pages' = [ps1 EXCEPT ![id].deleted = TRUE]
          /\ resp' = Response("deletePage", u, <<id>>, Ok, 0, 0)
          /\ UNCHANGED <<sites, sections>>

-----------------------------------------------------------------------------
(* SectionController *)

NewSection(p, ord) == [page |-> p, order |-> ord, content |-> EmptyBlob, deleted |-> FALSE]

\* sectionRepository.findOne({ where: { id }, relations: ['page', 'page.site'] })
findSection(id) == id \in LiveSections
siteOfSection(id) == pages[sections[id].page].site

getSection(u, id) ==
  /\ resp' = IF ~findSection(id) THEN Response("getSection", u, <<id>>, NotFound, 0, 0)
             ELSE IF ~findOwnedSite(siteOfSection(id), u)
                  THEN Response("getSection", u, <<id>>, Forbidden, 0, 0)
                  ELSE Response("getSection", u, <<id>>, Ok, id, 0)
  /\ UNCHANGED store

createSection(u, pageId, order) ==
  IF ~findPage(pageId)
  THEN /\ resp' = Response("createSection", u, <<pageId>>, NotFound, 0, 0)
       /\ UNCHANGED store
  ELSE IF ~findOwnedSite(pages[pageId].site, u)
  THEN /\ resp' = Response("createSection", u, <<pageId>>, Forbidden, 0, 0)
       /\ UNCHANGED store
  ELSE IF countSectionsOf(pageId) >= maxSectionsOf(u)
  THEN /\ resp' = Response("createSection", u, <<pageId>>, Forbidden, 0, maxSectionsOf(u))
       /\ UNCHANGED store
  ELSE /\ Len(sections) < MaxSectionRows
       /\ sections' = Append(sections, NewSection(pageId, order))
       /\ resp' = Response("createSection", u, <<pageId>>, Ok, Len(sections) + 1, 0)
       /\ UNCHANGED <<sites, pages>>

updateSection(u, id, order, content) ==
  IF ~findSection(id)
  THEN /\ resp' = Response("updateSection", u, <<id>>, NotFound, 0, 0)
       /\ UNCHANGED store
  ELSE IF ~findOwnedSite(siteOfSection(id), u)
  THEN /\ resp' = Response("updateSection", u, <<id>>, Forbidden, 0, 0)
       /\ UNCHANGED store
  ELSE LET section == sections[id]
           c1 == IF content # Undefined
                 THEN [section EXCEPT !.content = mergeBlob(@, content[1])] ELSE section
           c2 == IF order # Undefined THEN [c1 EXCEPT !.order = order[1]] ELSE c1
       IN sections' = [sections EXCEPT ![id] = c2]
       /\ resp' = Response("updateSection", u, <<id>>, Ok, id, 0)
       /\ UNCHANGED <<sites, pages>>

reorderSections(u, sectionIds) ==
  LET found == {i \in LiveSections : i \in Range(sectionIds)}
  IN IF Len(sectionIds) = 0
     THEN /\ resp' = Response("reorderSections", u, sectionIds, BadRequest, 0, 0)
          /\ UNCHANGED store
     ELSE IF Cardinality(found) # Len(sectionIds)
     THEN /\ resp' = Response("reorderSections", u, sectionIds, BadRequest, 0, 0)
          /\ UNCHANGED store
     ELSE IF \E i \in found : ~findOwnedSite(siteOfSection(i), u)
     THEN /\ resp' = Response("reorderSections", u, sectionIds, Forbidden, 0, 0)
          /\ UNCHANGED store
     ELSE /\ sections' = writeOrder(sections, sectionIds)
          /\ resp' = Response("reorderSections", u, sectionIds, Ok, 0, 0)
          /\ UNCHANGED <<sites, pages>>

\* sectionCount <= 1
isLastSection(p) == countSectionsOf(p) <= 1

deleteSection(u, id) ==
  IF ~findSection(id)
  THEN /\ resp' = Response("deleteSection", u, <<id>>, NotFound, 0, 0)
       /\ UNCHANGED store
  ELSE IF ~findOwnedSite(siteOfSection(id), u)
  THEN /\ resp' = Response("deleteSection", u, <<id>>, Forbidden, 0, 0)
       /\ UNCHANGED store
  ELSE IF isLastSection(sections[id].page)
  THEN /\ resp' = Response("deleteSection", u, <<id>>, BadRequest, 0, 0)
       /\ UNCHANGED store
  ELSE /\ sections' = [sections EXCEPT ![id].deleted = TRUE]
       /\ resp' = Response("deleteSection", u, <<id>>, Ok, 0, 0)
       /\ UNCHANGED <<sites, pages>>

-----------------------------------------------------------------------------
(* Dates: JavaScript Date at day resolution, [y, m, d] with m in 0..11 *)

isLeap(y) == (y % 4 = 0 /\ y % 100 # 0) \/ y % 400 = 0
daysIn(y, m) ==
  IF m = 1 THEN (IF isLeap(y) THEN 29 ELSE 28)
  ELSE IF m \in {3, 5, 8, 10} THEN 30 ELSE 31

\* the Date a setDate / setMonth / setFullYear call leaves: fields past the
\* end of the month or the year roll over
RECURSIVE MakeDate(_, _, _)
MakeDate(y, m, d) ==
  IF m > 11 THEN MakeDate(y + 1, m - 12, d)
  ELSE IF d > daysIn(y, m) THEN MakeDate(y, m + 1, d - daysIn(y, m))
  ELSE [y |-> y, m |-> m, d |-> d]

\* a >= b on Dates
DateGE(a, b) ==
  \/ a.y > b.y
  \/ a.y = b.y /\ a.m > b.m
  \/ a.y = b.y /\ a.m = b.m /\ a.d >= b.d

NoDate == [y |-> 0, m |-> 0, d |-> 0]
Instants ==
  { MakeDate(2024, 0, 30), MakeDate(2024, 0, 31), MakeDate(2024, 1, 1),
    MakeDate(2024, 1, 29), MakeDate(2024, 2, 2), MakeDate(2024, 11, 31),
    MakeDate(2025, 0, 1) }

-----------------------------------------------------------------------------
(* AICredits *)

MaxCredits == 3
MaxAmount == 2
Amounts == 0..MaxAmount
ResetFrequencies == {"daily", "weekly", "monthly", "yearly", "never"}

\* credits - usedCredits >= required
hasEnoughCredits_ignoresUsed(l, required) == l.credits >= required
hasEnoughCredits(l, required) == l.credits - l.usedCredits >= required

CreditResult(op, amount, result) == [op |-> op, amount |-> amount, result |-> result]

useCredits(amount) ==
  IF ~hasEnoughCredits(ledger, amount)
  THEN /\ cresp' = CreditResult("useCredits", amount, FALSE)
       /\ UNCHANGED <<ledger, now>>
  ELSE /\ ledger' = [ledger EXCEPT !.usedCredits = @ + amount]
       /\ cresp' = CreditResult("useCredits", amount, TRUE)
       /\ UNCHANGED now

addCredits(amount) ==
  /\ ledger.credits + amount <= MaxCredits
  /\ ledger' = [ledger EXCEPT !.credits = @ + amount]
  /\ cresp' = CreditResult("addCredits", amount, TRUE)
  /\ UNCHANGED now

\* new Date(now) moved on by setDate / setMonth / setFullYear
nextResetDate_unmoved(frequency, t) == t
nextResetDate(frequency, t) ==
  CASE frequency = "daily" -> MakeDate(t.y, t.m, t.d + 1)
    [] frequency = "weekly" -> MakeDate(t.y, t.m, t.d + 7)
    [] frequency = "monthly" -> MakeDate(t.y, t.m + 1, t.d)
    [] frequency = "yearly" -> MakeDate(t.y + 1, t.m, t.d)
    [] OTHER -> t

resetCreditsIfNeeded ==
  IF ledger.resetFrequency = "never" \/ ledger.nextResetAt = NoDate
  THEN /\ cresp' = CreditResult("resetCreditsIfNeeded", 0, FALSE)
       /\ UNCHANGED <<ledger, now>>
  ELSE IF DateGE(now, ledger.nextResetAt)
  THEN /\ ledger' = [ledger EXCEPT !.lastResetAt = now,
                                   !.usedCredits = 0,
                                   !.nextResetAt = nextResetDate(ledger.resetFrequency, now)]
       /\ cresp' = CreditResult("resetCreditsIfNeeded", 0, TRUE)
       /\ UNCHANGED now
  ELSE /\ cresp' = CreditResult("resetCreditsIfNeeded", 0, FALSE)
       /\ UNCHANGED <<ledger, now>>

\* the clock read by new Date() moves on between calls
Tick ==
  /\ \E t \in Instants : t # now /\ DateGE(t, now) /\ now' = t
  /\ cresp' = CreditResult("none", 0, FALSE)
  /\ UNCHANGED ledger

-----------------------------------------------------------------------------
-----------------------------------------------------------------------------
(* Payment entity and PaymentController.  `stripe` is the external         *)
(* processor: the customers it knows, its payment intents and its          *)
(* subscriptions.  A call to it either returns or throws a StripeError.    *)

MaxPaymentRows == 2
MaxIntents == 2
MaxSubscriptions == 1
MaxPayAmount == 2
MaxPayRequests == 5
MaxUpdates == 1
PayAmounts == {MaxPayAmount}
RefundAmounts == 0..(MaxPayAmount + 1)

PaymentStatus == {"pending", "completed", "failed", "refunded", "cancelled"}
\* status values the processor reports for a confirmed intent
IntentStatuses == {"succeeded", "requires_action"}
StripeErrorTypes == {"card_error", "api_error"}
NoFailure == "none"

NewPayment(u, amount, type, intent, sub, invoiceIntent) ==
  [user |-> u, amount |-> amount, status |-> "pending", paymentType |-> type,
   stripePaymentIntentId |-> intent, subscriptionId |-> sub,
   paymentIntentId |-> invoiceIntent, paid |-> FALSE, refunded |-> FALSE,
   refundAmount |-> 0, error |-> NoFailure]

PayResponse(op, u, target, status) ==
  [op |-> op, user |-> u, target |-> target, status |-> status]

\* user.stripeCustomerId and the customer the processor holds
hasCustomer(u) == u \in stripe.customers
\* customers.create when the user has no customer yet
withCustomer(st, u) == [st EXCEPT !.customers = @ \cup {u}]

\* paymentRepository.findOne({ where: { metadata: { stripePaymentIntentId: id } } })
paymentsOfIntent(id) == {i \in DOMAIN payments : payments[i].stripePaymentIntentId = id}
\* paymentRepository.findOne({ where: { metadata: { subscriptionId: id } }, order: createdAt DESC })
paymentsOfSubscription(id) == {i \in DOMAIN payments : payments[i].subscriptionId = id}
Latest(S) == CHOOSE x \in S : \A y \in S : y <= x

\* createPaymentIntent and purchaseCredits share one shape: customer, intent,
\* pending payment record; failAt names the processor call that throws
intentPurchase(op, type, u, amount, failAt) ==
  IF ~hasCustomer(u) /\ failAt = "customers.create"
  THEN /\ presp' = PayResponse(op, u, 0, BadRequest)
       /\ UNCHANGED <<payments, stripe>>
  ELSE IF failAt = "paymentIntents.create"
  THEN /\ stripe' = withCustomer(stripe, u)
       /\ presp' = PayResponse(op, u, 0, BadRequest)
       /\ UNCHANGED payments
  ELSE LET id == Len(stripe.intents) + 1
       IN /\ Len(stripe.intents) < MaxIntents
          /\ Len(payments) < MaxPaymentRows
          /\ stripe' = [withCustomer(stripe, u) EXCEPT
                          !.intents = Append(@, [customer |-> u, status |-> "requires_confirmation"])]
          /\ payments' = Append(payments, NewPayment(u, amount, type, id, 0, 0))
          /\ presp' = PayResponse(op, u, id, Ok)

createPaymentIntent(u, amount, failAt) ==
  intentPurchase("createPaymentIntent", "one_time", u, amount, failAt)

\* getCreditPackage returns null for an unknown package
purchaseCredits(u, validPackage, amount, failAt) ==
  IF ~validPackage
  THEN /\ presp' = PayResponse("purchaseCredits", u, 0, BadRequest)
       /\ UNCHANGED <<payments, stripe>>
  ELSE intentPurchase("purchaseCredits", "credit_purchase", u, amount, failAt)

\* the catch block of confirmPaymentIntent
confirmFailed(u, id, st, errType) ==
  /\ stripe' = st
  /\ presp' = PayResponse("confirmPaymentIntent", u, id, BadRequest)
  /\ payments' =
       IF errType \in {"card_error", "invalid_request_error"} /\ paymentsOfIntent(id) # {}
       THEN [payments EXCEPT ![Latest(paymentsOfIntent(id))] =
               [@ EXCEPT !.status = "failed", !.error = errType]]
       ELSE payments

confirmPaymentIntent(u, id, paymentMethodId, savePaymentMethod, failAt, errType, confirmed) ==
  IF id \notin DOMAIN stripe.intents
  THEN \* retrieve throws: no such payment intent
       confirmFailed(u, id, stripe, "invalid_request_error")
  ELSE IF failAt = "paymentIntents.retrieve"
  THEN confirmFailed(u, id, stripe, errType)
  ELSE IF stripe.intents[id].customer # u \/ ~hasCustomer(u)
  THEN \* ForbiddenError thrown inside the try block, caught below it
       /\ presp' = PayResponse("confirmPaymentIntent", u, id, BadRequest)
       /\ UNCHANGED <<payments, stripe>>
  ELSE IF (paymentMethodId /\ failAt = "paymentIntents.update")
          \/ failAt = "paymentIntents.confirm"
  THEN confirmFailed(u, id, stripe, errType)
  ELSE LET st1 == [stripe EXCEPT !.intents[id].status = confirmed]
       IN IF paymentsOfIntent(id) # {} /\ savePaymentMethod /\ failAt = "setupIntents.create"
          THEN confirmFailed(u, id, st1, errType)
          ELSE /\ stripe' = st1
               /\ payments' =
                    IF paymentsOfIntent(id) # {}
                    THEN [payments EXCEPT ![Latest(paymentsOfIntent(id))] =
                            [@ EXCEPT !.status = confirmed, !.paid = TRUE]]
                    ELSE payments
               /\ presp' = PayResponse("confirmPaymentIntent", u, id, Ok)

\* getPriceIdForPlan returns null for an unknown plan or interval
createSubscription(u, validPlan, amount, failAt) ==
  IF ~hasCustomer(u) /\ failAt = "customers.create"
  THEN /\ presp' = PayResponse("createSubscription", u, 0, BadRequest)
       /\ UNCHANGED <<payments, stripe>>
  ELSE IF ~validPlan \/ failAt = "subscriptions.create"
  THEN /\ stripe' = withCustomer(stripe, u)
       /\ presp' = PayResponse("createSubscription", u, 0, BadRequest)
       /\ UNCHANGED payments
  ELSE LET sub == Len(stripe.subs) + 1
           intent == Len(stripe.intents) + 1
       IN /\ Len(stripe.subs) < MaxSubscriptions
          /\ Len(stripe.intents) < MaxIntents
          /\ Len(payments) < MaxPaymentRows
          /\ stripe' = [withCustomer(stripe, u) EXCEPT
                          !.subs = Append(@, [customer |-> u, cancelAtPeriodEnd |-> FALSE,
                                              cancelRequested |-> FALSE,
                                              updates |-> 0]),
                          !.intents = Append(@, [customer |-> u, status |-> "requires_payment_method"])]
          /\ payments' = Append(payments, NewPayment(u, amount, "subscription", 0, sub, intent))
          /\ presp' = PayResponse("createSubscription", u, sub, Ok)

\* subscriptions.update(id, updateParams) is the handler's only write; the
\* local Payment of the subscription is not touched
updateSubscription(u, id, planChange, validPlan, failAt) ==
  IF id \notin DOMAIN stripe.subs \/ failAt = "subscriptions.retrieve"
  THEN /\ presp' = PayResponse("updateSubscription", u, id, BadRequest)
       /\ UNCHANGED <<payments, stripe>>
  ELSE IF stripe.subs[id].customer # u \/ ~hasCustomer(u)
  THEN \* ForbiddenError thrown inside the try block, caught below it
       /\ presp' = PayResponse("updateSubscription", u, id, BadRequest)
       /\ UNCHANGED <<payments, stripe>>
  ELSE IF (planChange /\ ~validPlan) \/ failAt = "subscriptions.update"
  THEN /\ presp' = PayResponse("updateSubscription", u, id, BadRequest)
       /\ UNCHANGED <<payments, stripe>>
  ELSE /\ stripe.subs[id].updates < MaxUpdates
       /\ stripe' = [stripe EXCEPT !.subs[id].updates = @ + 1]
       /\ presp' = PayResponse("updateSubscription", u, id, Ok)
       /\ UNCHANGED payments

cancelSubscription(u, id, cancelAtPeriodEnd, failAt) ==
  IF id \notin DOMAIN stripe.subs \/ failAt = "subscriptions.retrieve"
  THEN /\ presp' = PayResponse("cancelSubscription", u, id, BadRequest)
       /\ UNCHANGED <<payments, stripe>>
  ELSE IF stripe.subs[id].customer # u \/ ~hasCustomer(u)
  THEN \* ForbiddenError thrown inside the try block, caught below it
       /\ presp' = PayResponse("cancelSubscription", u, id, BadRequest)
       /\ UNCHANGED <<payments, stripe>>
  ELSE IF failAt = "subscriptions.update"
  THEN /\ presp' = PayResponse("cancelSubscription", u, id, BadRequest)
       /\ UNCHANGED <<payments, stripe>>
  ELSE /\ stripe' = [stripe EXCEPT !.subs[id] =
                       [@ EXCEPT !.cancelAtPeriodEnd = cancelAtPeriodEnd,
                                 !.cancelRequested = TRUE]]
       /\ payments' =
            IF paymentsOfSubscription(id) # {}
            THEN [payments EXCEPT ![Latest(paymentsOfSubscription(id))] =
                    [@ EXCEPT !.status = IF cancelAtPeriodEnd THEN "pending_cancelation"
                                         ELSE "canceled"]]
            ELSE payments
       /\ presp' = PayResponse("cancelSubscription", u, id, Ok)

\* Payment.markAsPaid
markAsPaid(i) ==
  /\ i \in DOMAIN payments
  /\ payments' = [payments EXCEPT ![i] = [@ EXCEPT !.status = "completed", !.paid = TRUE]]
  /\ presp' = PayResponse("markAsPaid", payments[i].user, i, Ok)
  /\ UNCHANGED stripe

\* Payment.processRefund: throws, or records the refund
refundRejected_zeroAllowed(p, amount) ==
  p.status # "completed" \/ amount < 0 \/ amount > p.amount
refundRejected(p, amount) ==
  p.status # "completed" \/ amount <= 0 \/ amount > p.amount

processRefund(i, amount) ==
  /\ i \in DOMAIN payments
  /\ IF refundRejected(payments[i], amount)
     THEN /\ presp' = PayResponse("processRefund", payments[i].user, i, "Error")
          /\ UNCHANGED <<payments, stripe>>
     ELSE /\ payments' = [payments EXCEPT ![i] =
               [@ EXCEPT !.status = IF amount = payments[i].amount
                                    THEN "refunded" ELSE "completed",
                         !.refunded = TRUE,
                         !.refundAmount = amount]]
          /\ presp' = PayResponse("processRefund", payments[i].user, i, Ok)
          /\ UNCHANGED stripe

-----------------------------------------------------------------------------
(* AuthController and the token utilities *)

MaxClock == 2
NoToken == [userId |-> "", type |-> "", iat |-> 0]
\* jwt.sign({ userId, email, type }, secret, { expiresIn }): the token is a
\* function of the user, the type and the second it is signed in
generateToken(u, type, t) == [userId |-> u, type |-> type, iat |-> t]
\* verifyToken(token, TokenType.REFRESH); no token of the model is seven days old
verifyToken(token) == token.type = "refresh"

AuthResponse(op, u, presented, status) ==
  [op |-> op, user |-> u, presented |-> presented, status |-> status]
NoAuthResponse == AuthResponse("none", "", NoToken, Ok)
IdleAuth ==
  /\ redis = [u \in Users |-> NoToken]
  /\ clock = 0
  /\ issued = {}
  /\ spent = {}
  /\ revoked = {}
  /\ aresp = NoAuthResponse

IssuedTo(u) == {t \in issued : t.userId = u}

login(u, passwordValid) ==
  IF u \notin Users \/ ~passwordValid
  THEN /\ aresp' = AuthResponse("login", u, NoToken, Unauthorized)
       /\ UNCHANGED <<redis, clock, issued, spent, revoked>>
  ELSE LET refreshToken == generateToken(u, "refresh", clock)
       IN /\ redis' = [redis EXCEPT ![u] = refreshToken]
          /\ issued' = issued \cup {refreshToken}
          /\ revoked' = revoked \ IssuedTo(u)
          /\ aresp' = AuthResponse("login", u, NoToken, Ok)
          /\ UNCHANGED <<clock, spent>>

refreshToken(token) ==
  IF token = NoToken
  THEN /\ aresp' = AuthResponse("refreshToken", "", token, BadRequest)
       /\ UNCHANGED <<redis, clock, issued, spent, revoked>>
  ELSE IF ~verifyToken(token)
  THEN /\ aresp' = AuthResponse("refreshToken", "", token, Unauthorized)
       /\ UNCHANGED <<redis, clock, issued, spent, revoked>>
  ELSE IF token.userId \notin Users
  THEN /\ aresp' = AuthResponse("refreshToken", "", token, NotFound)
       /\ UNCHANGED <<redis, clock, issued, spent, revoked>>
  ELSE IF redis[token.userId] # token
  THEN /\ aresp' = AuthResponse("refreshToken", token.userId, token, Unauthorized)
       /\ UNCHANGED <<redis, clock, issued, spent, revoked>>
  ELSE LET newToken == generateToken(token.userId, "refresh", clock)
       IN /\ redis' = [redis EXCEPT ![token.userId] = newToken]
          /\ issued' = issued \cup {newToken}
          /\ spent' = spent \cup {token}
          /\ aresp' = AuthResponse("refreshToken", token.userId, token, Ok)
          /\ UNCHANGED <<clock, revoked>>

\* redisClient.del(`refresh_token:${user.id}`)
logout(u) ==
  /\ redis' = [redis EXCEPT ![u] = NoToken]
  /\ revoked' = revoked \cup IssuedTo(u)
  /\ aresp' = AuthResponse("logout", u, NoToken, Ok)
  /\ UNCHANGED <<clock, issued, spent>>

resetPassword(u, tokenValid) ==
  IF ~tokenValid
  THEN /\ aresp' = AuthResponse("resetPassword", u, NoToken, BadRequest)
       /\ UNCHANGED <<redis, clock, issued, spent, revoked>>
  ELSE IF u \notin Users
  THEN /\ aresp' = AuthResponse("resetPassword", u, NoToken, NotFound)
       /\ UNCHANGED <<redis, clock, issued, spent, revoked>>
  ELSE /\ redis' = [redis EXCEPT ![u] = NoToken]
       /\ revoked' = revoked \cup IssuedTo(u)
       /\ aresp' = AuthResponse("resetPassword", u, NoToken, Ok)
       /\ UNCHANGED <<clock, issued, spent>>

\* a second passes
AuthTick ==
  /\ clock < MaxClock
  /\ clock' = clock + 1
  /\ aresp' = NoAuthResponse
  /\ UNCHANGED <<redis, issued, spent, revoked>>

-----------------------------------------------------------------------------
NoCreditResult == CreditResult("none", 0, FALSE)
IdleCredits ==
  /\ ledger = [credits |-> 0, usedCredits |-> 0, resetFrequency |-> "monthly",
               lastResetAt |-> NoDate, nextResetAt |-> NoDate]
  /\ now = MakeDate(2024, 0, 30)
  /\ cresp = NoCreditResult

NoPayResponse == PayResponse("none", "u1", 0, Ok)
IdlePayments ==
  /\ payments = <<>>
  /\ stripe = [customers |-> {}, intents |-> <<>>, subs |-> <<>>]
  /\ presp = NoPayResponse

IdleSites ==
  /\ sites = <<>>
  /\ pages = <<>>
  /\ sections = <<>>
  /\ resp = NoResponse
  /\ nreq = 0
  /\ repeated = FALSE
  /\ procs = <<>>

Init ==
  /\ sites = <<>>
  /\ pages = <<>>
  /\ sections = <<>>
  /\ resp = NoResponse
  /\ nreq = 0
  /\ repeated = FALSE
  /\ procs = <<>>
  /\ IdleCredits
  /\ IdlePayments
  /\ IdleAuth

Orders == 0..MaxOrder
SiteStatuses == {"draft", "published"}
RECURSIVE SeqsUpTo(_, _)
SeqsUpTo(S, n) ==
  IF n = 0 THEN {<<>>}
  ELSE LET shorter == SeqsUpTo(S, n - 1)
       IN shorter \cup {Append(q, x) : q \in {t \in shorter : Len(t) = n - 1}, x \in S}

\* one request to the site / page / section API
Request(A) ==
  /\ nreq < MaxRequests
  /\ nreq' = nreq + 1
  /\ A
  /\ UNCHANGED <<creditVars, payVars, procs, authVars>>

Step(A) == Request(A) /\ UNCHANGED repeated

Next ==
  \/ \E u \in Users, n \in SiteNames, r \in RandomDigits : Step(createSite(u, n, r))
  \/ \E u \in Users, id \in SiteIds : Step(getSite(u, id))
  \/ \E u \in Users, id \in SiteIds, n \in Opt(SiteNames) :
       Step(updateSite(u, id, n, Undefined, Undefined))
  \/ \E u \in Users, id \in SiteIds, st \in SiteStatuses : Step(publishSite(u, id, st))
  \/ \E u \in Users, id \in SiteIds, n \in SiteNames, dc \in BOOLEAN, r \in RandomDigits :
       Step(duplicateSite(u, id, n, dc, r))
  \/ \E u \in Users, id \in SiteIds, o \in Users \cup {"u9"} :
       Step(transferOwnership(u, id, o))
  \/ \E u \in Users, id \in SiteIds : Step(deleteSite(u, id))
  \/ \E u \in Users, id \in PageIds : Step(getPage(u, id))
  \/ \E u \in Users, s \in SiteIds, t \in PageTitles, h \in BOOLEAN, o \in Orders,
        r \in RandomDigits : Step(createPage(u, s, t, Some(h), Some(o), r))
  \/ \E u \in Users, id \in PageIds, t \in Opt(PageTitles), h \in Opt(BOOLEAN),
        o \in Opt(Orders) : Step(updatePage(u, id, t, h, o, Undefined))
  \/ \E u \in Users, id \in PageIds, t \in PageTitles, dc \in BOOLEAN, r \in RandomDigits :
       Step(duplicatePage(u, id, t, dc, r))
  \/ \E u \in Users, ids \in SeqsUpTo(PageIds, MaxReorderLen) : Step(reorderPages(u, ids))
  \/ \E u \in Users, id \in PageIds, a \in PageIds : Step(deletePage(u, id, a))
  \/ \E u \in Users, id \in SectionIds : Step(getSection(u, id))
  \/ \E u \in Users, p \in PageIds, o \in Orders : Step(createSection(u, p, o))
  \/ \E u \in Users, id \in SectionIds, o \in Opt(Orders) : Step(updateSection(u, id, o, Undefined))
  \/ \E u \in Users, ids \in SeqsUpTo(SectionIds, MaxReorderLen) :
       Step(reorderSections(u, ids))
  \/ \E u \in Users, id \in SectionIds : Step(deleteSection(u, id))

Spec == Init /\ [][Next]_vars

\* A ledger row as stored: any grant, any usage within it, any reset policy
InitCredits ==
  /\ IdleSites
  /\ IdlePayments
  /\ IdleAuth
  /\ now \in Instants
  /\ cresp = NoCreditResult
  /\ \E c \in 0..MaxCredits, used \in 0..MaxCredits, f \in ResetFrequencies,
        n \in Instants \cup {NoDate} :
       /\ used <= c
       /\ ledger = [credits |-> c, usedCredits |-> used, resetFrequency |-> f,
                    lastResetAt |-> NoDate, nextResetAt |-> n]

NextCredits ==
  \/ (\E a \in Amounts : useCredits(a)) /\ UNCHANGED <<siteVars, nreq, payVars, flightVars, authVars>>
  \/ (\E a \in Amounts : addCredits(a)) /\ UNCHANGED <<siteVars, nreq, payVars, flightVars, authVars>>
  \/ resetCreditsIfNeeded /\ UNCHANGED <<siteVars, nreq, payVars, flightVars, authVars>>
  \/ Tick /\ UNCHANGED <<siteVars, nreq, payVars, flightVars, authVars>>

SpecCredits == InitCredits /\ [][NextCredits]_vars

InitPayments == IdleSites /\ IdleCredits /\ IdlePayments /\ IdleAuth

IntentIds == 1..MaxIntents
SubscriptionIds == 1..MaxSubscriptions
PaymentIds == 1..MaxPaymentRows
Failures(calls) == calls \cup {NoFailure}

\* one request to the payment API or one call of a Payment method
PayStep(A) ==
  /\ nreq < MaxPayRequests
  /\ nreq' = nreq + 1
  /\ A
  /\ UNCHANGED <<sites, pages, sections, resp, creditVars, flightVars, authVars>>

NextPayments ==
  \/ \E u \in Users, a \in PayAmounts,
        f \in Failures({"customers.create", "paymentIntents.create"}) :
       PayStep(createPaymentIntent(u, a, f))
  \/ \E u \in Users, v \in BOOLEAN, a \in PayAmounts,
        f \in Failures({"customers.create", "paymentIntents.create"}) :
       PayStep(purchaseCredits(u, v, a, f))
  \/ \E u \in Users, id \in IntentIds, pm \in BOOLEAN, save \in BOOLEAN,
        f \in Failures({"paymentIntents.retrieve", "paymentIntents.update",
                        "paymentIntents.confirm", "setupIntents.create"}),
        e \in StripeErrorTypes, c \in IntentStatuses :
       PayStep(confirmPaymentIntent(u, id, pm, save, f, e, c))
  \/ \E u \in Users, v \in BOOLEAN, a \in PayAmounts,
        f \in Failures({"customers.create", "subscriptions.create"}) :
       PayStep(createSubscription(u, v, a, f))
  \/ \E u \in Users, id \in SubscriptionIds, pe \in BOOLEAN,
        f \in Failures({"subscriptions.retrieve", "subscriptions.update"}) :
       PayStep(cancelSubscription(u, id, pe, f))
  \/ \E u \in Users, id \in SubscriptionIds, pc \in BOOLEAN, v \in BOOLEAN,
        f \in Failures({"subscriptions.retrieve", "subscriptions.update"}) :
       PayStep(updateSubscription(u, id, pc, v, f))
  \/ \E i \in PaymentIds : PayStep(markAsPaid(i))
  \/ \E i \in PaymentIds, a \in RefundAmounts : PayStep(processRefund(i, a))

SpecPayments == InitPayments /\ [][NextPayments]_vars

\* The page requests alone: createSite, createPage, updatePage, deletePage
NextPages ==
  \/ \E u \in Users, n \in SiteNames, r \in RandomDigits : Step(createSite(u, n, r))
  \/ \E u \in Users, s \in SiteIds, t \in PageTitles, h \in Opt(BOOLEAN),
        o \in Opt(Orders), r \in RandomDigits : Step(createPage(u, s, t, h, o, r))
  \/ \E u \in Users, id \in PageIds, t \in Opt(PageTitles), h \in Opt(BOOLEAN),
        o \in Opt(Orders) : Step(updatePage(u, id, t, h, o, Undefined))
  \/ \E u \in Users, id \in PageIds, a \in PageIds : Step(deletePage(u, id, a))

SpecPages == Init /\ [][NextPages]_vars

\* Site creation alone, over more names and over random fractions with
\* few base-36 digits (0.5 is "0.i", 0 has no digits at all)
SlugTexts ==
  { <<"M","y"," ","S","i","t","e">>, <<"m","y","-","s","i","t","e">>,
    <<"A">>, <<"a">>, <<" ","a","_","b"," ">>, <<"a"," ","-"," ","b","!">> }
RandomFractions ==
  { <<"k","3","x","9","a","b","c">>, <<"i">>, <<>>, <<"0","z","7","q","2">> }

NextSlug ==
  \E u \in Users, n \in SlugTexts, r \in RandomFractions : Step(createSite(u, n, r))

SpecSlug == Init /\ [][NextSlug]_vars

\* Reorder requests alone, on a site of u2 with two pages and two sections
\* in any stored order; repeated records that a request is made twice in a row
SameRequest(r1, r2) == r1.op = r2.op /\ r1.user = r2.user /\ r1.target = r2.target

Track(A) == Request(A) /\ repeated' = SameRequest(resp, resp')

InitReorder ==
  /\ \E o1, o2, o3, o4 \in Orders :
       /\ pages = << NewPage(1, HomeTitle, HomeSlug, TRUE, o1),
                     NewPage(1, <<"A">>, <<"a">>, FALSE, o2) >>
       /\ sections = << NewSection(1, o3), NewSection(1, o4) >>
  /\ sites = << NewSite("u2", <<"A">>, <<"a">>) >>
  /\ resp = NoResponse
  /\ nreq = 0
  /\ repeated = FALSE
  /\ procs = <<>>
  /\ IdleCredits
  /\ IdlePayments
  /\ IdleAuth

NextReorder ==
  \/ \E u \in Users, ids \in SeqsUpTo(PageIds, MaxReorderLen) : Track(reorderPages(u, ids))
  \/ \E u \in Users, ids \in SeqsUpTo(SectionIds, MaxReorderLen) :
       Track(reorderSections(u, ids))

SpecReorder == InitReorder /\ [][NextReorder]_vars

\* Update requests alone, on a stored site of u2 with one page and one
\* section whose blobs hold any keys
BlobKeys == {"title", "description"}
BlobValues == {"x", "y"}
Blobs == UNION {[S -> BlobValues] : S \in SUBSET BlobKeys}

MaxMergeRequests == 2
MergeTitles == {<<"B">>}
MergeOrders == {1}
MergeStatuses == {"published"}
InitMerge ==
  /\ \E b \in Blobs :
       /\ sites = << [NewSite("u2", <<"A">>, <<"a">>) EXCEPT !.seo = b] >>
       /\ pages = << [NewPage(1, HomeTitle, HomeSlug, TRUE, 0) EXCEPT !.seo = b] >>
       /\ sections = << [NewSection(1, 0) EXCEPT !.content = b] >>
  /\ resp = NoResponse
  /\ nreq = 0
  /\ repeated = FALSE
  /\ procs = <<>>
  /\ IdleCredits
  /\ IdlePayments
  /\ IdleAuth

MergeStep(A) == nreq < MaxMergeRequests /\ Step(A)

NextMerge ==
  \/ \E u \in Users, id \in SiteIds, n \in Opt(MergeTitles), st \in Opt(MergeStatuses),
        b \in Opt(Blobs) : MergeStep(updateSite(u, id, n, st, b))
  \/ \E u \in Users, id \in PageIds, t \in Opt(MergeTitles), h \in Opt(BOOLEAN),
        o \in Opt(MergeOrders), b \in Opt(Blobs) : MergeStep(updatePage(u, id, t, h, o, b))
  \/ \E u \in Users, id \in SectionIds, o \in Opt(MergeOrders), b \in Opt(Blobs) :
       MergeStep(updateSection(u, id, o, b))

SpecMerge == InitMerge /\ [][NextMerge]_vars

\* Requests to the auth API; a refresh request presents a token handed out
\* earlier, an access token, or none
PresentedTokens ==
  issued \cup {generateToken(u, "access", clock) : u \in Users} \cup {NoToken}
AuthStep(A) ==
  A /\ UNCHANGED <<siteVars, nreq, creditVars, payVars, flightVars>>

NextAuth ==
  \/ \E u \in Users \cup {"u9"}, v \in BOOLEAN : AuthStep(login(u, v))
  \/ \E t \in PresentedTokens : AuthStep(refreshToken(t))
  \/ \E u \in Users : AuthStep(logout(u))
  \/ \E u \in Users \cup {"u9"}, v \in BOOLEAN : AuthStep(resetPassword(u, v))
  \/ AuthStep(AuthTick)

SpecAuth == Init /\ [][NextAuth]_vars

\* Coupon checks alone, at any second of the clock.  A coupon as the
\* processor returns it; redeem_by and max_redemptions may be null
MaxRedemptions == 2
Coupons ==
  [valid : BOOLEAN, redeem_by : Opt(0..(MaxClock + 1)),
   max_redemptions : Opt(0..MaxRedemptions), times_redeemed : 0..MaxRedemptions]

CouponResponse(u, coupon, valid) ==
  [op |-> "applyCoupon", user |-> u, target |-> 0, status |-> Ok,
   coupon |-> coupon, valid |-> valid]

\* stripe.coupons.retrieve(code) returns coupon, or throws when retrieved is false
applyCoupon(u, coupon, retrieved) ==
  /\ presp' =
       IF ~retrieved THEN CouponResponse(u, Undefined, FALSE)
       ELSE CouponResponse(u, Some(coupon),
              /\ ~coupon.valid
              /\ (coupon.redeem_by = Undefined \/ coupon.redeem_by[1] = 0
                    \/ coupon.redeem_by[1] > clock)
              /\ (coupon.max_redemptions = Undefined
                    \/ coupon.times_redeemed < coupon.max_redemptions[1]))
  /\ UNCHANGED <<payments, stripe>>

InitCoupon ==
  /\ IdleSites
  /\ IdleCredits
  /\ IdlePayments
  /\ redis = [u \in Users |-> NoToken]
  /\ clock \in 0..MaxClock
  /\ issued = {}
  /\ spent = {}
  /\ revoked = {}
  /\ aresp = NoAuthResponse

NextCoupon ==
  \E u \in Users, c \in Coupons, retrieved \in BOOLEAN :
    applyCoupon(u, c, retrieved)
      /\ UNCHANGED <<siteVars, nreq, creditVars, flightVars, authVars>>

SpecCoupon == InitCoupon /\ [][NextCoupon]_vars

-----------------------------------------------------------------------------
(* Page requests in flight at the same time.  A handler is a sequence of   *)
(* awaited storage calls; between two of them the other handler may run.   *)
(* procs[i] is request i: its input, the next call it makes, and what it   *)
(* holds in memory (the entity it loaded, the set of updates not yet       *)
(* applied).                                                               *)

Procs == {1, 2}
NoRow == NewPage(0, <<>>, <<>>, FALSE, 0)

Handler(op, u, target, list, pc) ==
  [op |-> op, user |-> u, target |-> target, list |-> list, pc |-> pc,
   status |-> "running", snap |-> NoRow, another |-> 0, pending |-> {}]

\* the requests a client may send: a new homepage for site 1, an existing
\* page made homepage, a reorder, a delete
FlightRequests ==
  {Handler("createPage", u, 1, <<>>, "findSite") : u \in Users}
    \cup {Handler("updatePage", u, id, <<>>, "findPage") : u \in Users, id \in {1, 2}}
    \cup {Handler("reorderPages", u, 0, ids, "find") :
            u \in Users, ids \in SeqsUpTo({1, 2}, MaxReorderLen) \ {<<>>}}
    \cup {Handler("deletePage", u, id, <<>>, "findPage") : u \in Users, id \in {1, 2}}

At(i, op, pc) == procs[i].op = op /\ procs[i].pc = pc
Finish(i, status) ==
  procs' = [procs EXCEPT ![i] = [@ EXCEPT !.pc = "done", !.status = status]]
Goto(i, pc) == procs' = [procs EXCEPT ![i] = [@ EXCEPT !.pc = pc]]

\* siteRepository.findOne({ where: { id: siteId, owner: user } })
cpFindSite(i) ==
  /\ At(i, "createPage", "findSite")
  /\ IF findOwnedSite(procs[i].target, procs[i].user)
     THEN Goto(i, "count") ELSE Finish(i, NotFound)
  /\ UNCHANGED pages

\* pageRepository.count({ site })
cpCount(i) ==
  /\ At(i, "createPage", "count")
  /\ IF countPagesOf(procs[i].target) >= maxPagesOf(procs[i].user)
     THEN Finish(i, Forbidden) ELSE Goto(i, "findSlug")
  /\ UNCHANGED pages

\* pageRepository.findOne({ where: { slug, site } }) for the new page, which
\* is built in memory with isHomepage = true
cpFindSlug(i, title, r) ==
  /\ At(i, "createPage", "findSlug")
  /\ LET cand == generateSlug(title)
         slug == IF pageSlugExists(cand, procs[i].target)
                 THEN cand \o <<"-">> \o pageSuffix(r) ELSE cand
     IN procs' = [procs EXCEPT ![i] =
                    [@ EXCEPT !.pc = "unset",
                              !.snap = NewPage(procs[i].target, title, slug, TRUE, 0)]]
  /\ UNCHANGED pages

\* pageRepository.update({ site, isHomepage: true }, { isHomepage: false })
cpUnset(i) ==
  /\ At(i, "createPage", "unset")
  /\ pages' = unsetHomepage(pages, procs[i].target, 0)
  /\ Goto(i, "save")

\* pageRepository.save(page)
cpSave(i) ==
  /\ At(i, "createPage", "save")
  /\ Len(pages) < MaxPageRows
  /\ pages' = Append(pages, procs[i].snap)
  /\ Finish(i, Ok)

\* pageRepository.findOne({ where: { id }, relations: ['site'] })
loadPage(i, op) ==
  /\ At(i, op, "findPage")
  /\ IF findPage(procs[i].target)
     THEN procs' = [procs EXCEPT ![i] =
                      [@ EXCEPT !.pc = "findSite", !.snap = pages[procs[i].target]]]
     ELSE Finish(i, NotFound)
  /\ UNCHANGED pages

upFindPage(i) == loadPage(i, "updatePage")

\* siteRepository.findOne({ where: { id: page.site.id, owner: user } })
upFindSite(i) ==
  /\ At(i, "updatePage", "findSite")
  /\ IF findOwnedSite(procs[i].snap.site, procs[i].user)
     THEN Goto(i, "unset") ELSE Finish(i, Forbidden)
  /\ UNCHANGED pages

\* update({ site, isHomepage: true, id: Not(id) }, { isHomepage: false }),
\* then page.isHomepage = true in memory
upUnset(i) ==
  /\ At(i, "updatePage", "unset")
  /\ pages' = unsetHomepage(pages, procs[i].snap.site, procs[i].target)
  /\ procs' = [procs EXCEPT ![i] = [@ EXCEPT !.pc = "save", !.snap.isHomepage = TRUE]]

\* pageRepository.save(page): the row takes the values held in memory
saveRow(ps, id, row) == [ps EXCEPT ![id] = [row EXCEPT !.deleted = ps[id].deleted]]

upSave(i) ==
  /\ At(i, "updatePage", "save")
  /\ pages' = saveRow(pages, procs[i].target, procs[i].snap)
  /\ Finish(i, Ok)

\* pageRepository.find({ where: { id: In(pageIds) }, relations: ['site'] })
roFind(i) ==
  /\ At(i, "reorderPages", "find")
  /\ IF Cardinality(LivePages \cap Range(procs[i].list)) # Len(procs[i].list)
     THEN Finish(i, BadRequest) ELSE Goto(i, "check")
  /\ UNCHANGED pages

\* siteRepository.findOne({ where: { id: page.site.id, owner: user } }) per page
roCheck(i) ==
  /\ At(i, "reorderPages", "check")
  /\ IF \E j \in Range(procs[i].list) : ~findOwnedSite(pages[j].site, procs[i].user)
     THEN Finish(i, Forbidden)
     ELSE procs' = [procs EXCEPT ![i] =
                      [@ EXCEPT !.pc = "update", !.pending = DOMAIN procs[i].list]]
  /\ UNCHANGED pages

\* Promise.all of pageRepository.update(pageId, { order: index }): the
\* updates are all issued and reach the store one at a time in any order
roUpdate(i, k) ==
  /\ At(i, "reorderPages", "update")
  /\ k \in procs[i].pending
  /\ pages' = [pages EXCEPT ![procs[i].list[k]].order = k - 1]
  /\ procs' = [procs EXCEPT ![i] =
                 IF procs[i].pending = {k}
                 THEN [@ EXCEPT !.pc = "done", !.status = Ok, !.pending = {}]
                 ELSE [@ EXCEPT !.pending = @ \ {k}]]

dpFindPage(i) == loadPage(i, "deletePage")

dpFindSite(i) ==
  /\ At(i, "deletePage", "findSite")
  /\ IF findOwnedSite(procs[i].snap.site, procs[i].user)
     THEN Goto(i, "count") ELSE Finish(i, Forbidden)
  /\ UNCHANGED pages

\* pageRepository.count({ site }) and the last-page check
dpCount(i) ==
  /\ At(i, "deletePage", "count")
  /\ IF isLastPage(procs[i].snap.site) THEN Finish(i, BadRequest)
     ELSE IF procs[i].snap.isHomepage THEN Goto(i, "findAnother")
     ELSE Goto(i, "softRemove")
  /\ UNCHANGED pages

\* pageRepository.findOne({ where: { site, id: Not(id) } })
dpFindAnother(i, a) ==
  /\ At(i, "deletePage", "findAnother")
  /\ LET others == PagesOf(procs[i].snap.site) \ {procs[i].target}
     IN IF others = {}
        THEN a = procs[i].target /\ Goto(i, "softRemove")
        ELSE /\ a \in others
             /\ procs' = [procs EXCEPT ![i] =
                            [@ EXCEPT !.pc = "saveAnother", !.another = a,
                                      !.snap = [pages[a] EXCEPT !.isHomepage = TRUE]]]
  /\ UNCHANGED pages

\* anotherPage.isHomepage = true; pageRepository.save(anotherPage)
dpSaveAnother(i) ==
  /\ At(i, "deletePage", "saveAnother")
  /\ pages' = saveRow(pages, procs[i].another, procs[i].snap)
  /\ Goto(i, "softRemove")

\* pageRepository.softRemove(page)
dpSoftRemove(i) ==
  /\ At(i, "deletePage", "softRemove")
  /\ pages' = [pages EXCEPT ![procs[i].target].deleted = TRUE]
  /\ Finish(i, Ok)

\* site 1 of u2 with its home page and a second page; two requests arrive
InitFlight ==
  /\ sites = << NewSite("u2", <<"A">>, <<"a">>) >>
  /\ pages = << NewPage(1, HomeTitle, HomeSlug, TRUE, 0),
                NewPage(1, <<"A">>, <<"a">>, FALSE, 1) >>
  /\ sections = <<>>
  /\ resp = NoResponse
  /\ nreq = 0
  /\ repeated = FALSE
  /\ procs \in [Procs -> FlightRequests]
  /\ IdleCredits
  /\ IdlePayments
  /\ IdleAuth

Flight(A) ==
  A /\ UNCHANGED <<sites, sections, resp, nreq, repeated, creditVars, payVars, authVars>>

NextFlight ==
  \/ \E i \in Procs : Flight(cpFindSite(i))
  \/ \E i \in Procs : Flight(cpCount(i))
  \/ \E i \in Procs, r \in RandomDigits : Flight(cpFindSlug(i, <<"A">>, r))
  \/ \E i \in Procs : Flight(cpUnset(i))
  \/ \E i \in Procs : Flight(cpSave(i))
  \/ \E i \in Procs : Flight(upFindPage(i))
  \/ \E i \in Procs : Flight(upFindSite(i))
  \/ \E i \in Procs : Flight(upUnset(i))
  \/ \E i \in Procs : Flight(upSave(i))
  \/ \E i \in Procs : Flight(roFind(i))
  \/ \E i \in Procs : Flight(roCheck(i))
  \/ \E i \in Procs, k \in 1..MaxReorderLen : Flight(roUpdate(i, k))
  \/ \E i \in Procs : Flight(dpFindPage(i))
  \/ \E i \in Procs : Flight(dpFindSite(i))
  \/ \E i \in Procs : Flight(dpCount(i))
  \/ \E i \in Procs, a \in PageIds : Flight(dpFindAnother(i, a))
  \/ \E i \in Procs : Flight(dpSaveAnother(i))
  \/ \E i \in Procs : Flight(dpSoftRemove(i))

SpecFlight == InitFlight /\ [][NextFlight]_vars

-----------------------------------------------------------------------------
(* Properties *)

HomepagesOf(s) == {i \in PagesOf(s) : pages[i].isHomepage}

\* C1: after any sequence of createSite, createPage, updatePage and
\* deletePage requests, a site with at least one non-deleted page has exactly
\* one non-deleted homepage, and a site with none has no homepage.
C1_ExactlyOneHomepage ==
  \A s \in DOMAIN sites :
    IF PagesOf(s) # {} THEN Cardinality(HomepagesOf(s)) = 1 ELSE HomepagesOf(s) = {}

SiteOps == {"getSite", "updateSite", "publishSite", "duplicateSite",
            "transferOwnership", "deleteSite", "createPage"}
PageOps == {"getPage", "updatePage", "duplicatePage", "deletePage",
            "reorderPages", "createSection"}
SectionOps == {"getSection", "updateSection", "deleteSection", "reorderSections"}

\* the Sites that enclose the targets of request r, resolved in the current store
EnclosingSites(r) ==
  IF r.op \in SiteOps THEN Range(r.target) \cap DOMAIN sites
  ELSE IF r.op \in PageOps
  THEN {pages[i].site : i \in Range(r.target) \cap DOMAIN pages}
  ELSE IF r.op \in SectionOps
  THEN {pages[sections[i].page].site : i \in Range(r.target) \cap DOMAIN sections}
  ELSE {}

NonOwnerRequest(r) == \E s \in EnclosingSites(r) : sites[s].owner # r.user
Refused(r) == r.status \in ErrorStatuses /\ r.data = 0

\* C2: a single-item read or a mutation of a Site, Page or Section by a
\* principal who does not own the enclosing Site is refused, returns no entity
\* and leaves all Sites, Pages and Sections as they were.
C2_NonOwnerRefused ==
  [][NonOwnerRequest(resp') => Refused(resp') /\ UNCHANGED store]_vars

C2_Witness ==
  /\ resp.op = "updateSection"
  /\ NonOwnerRequest(resp)
  /\ resp.status = Forbidden

\* ids lists every current page of one site exactly once
IsPagePermutation(ids) ==
  \E s \in DOMAIN sites :
    /\ PagesOf(s) # {}
    /\ Range(ids) = PagesOf(s)
    /\ Len(ids) = Cardinality(PagesOf(s))
IsSectionPermutation(ids) ==
  \E p \in DOMAIN pages :
    /\ SectionsOf(p) # {}
    /\ Range(ids) = SectionsOf(p)
    /\ Len(ids) = Cardinality(SectionsOf(p))

\* C3: a reorder request whose id list is not a permutation of all current
\* members of one scope is rejected and leaves every order value unchanged.
C3_NonPermutationRejected ==
  [][/\ (resp'.op = "reorderPages" /\ ~IsPagePermutation(resp'.target))
          => (resp'.status \in ErrorStatuses /\ UNCHANGED store)
     /\ (resp'.op = "reorderSections" /\ ~IsSectionPermutation(resp'.target))
          => (resp'.status \in ErrorStatuses /\ UNCHANGED store)]_vars

C5_LastChildKept ==
  [][/\ (resp'.op = "deletePage" /\ resp'.target[1] \in LivePages
           /\ countPagesOf(pages[resp'.target[1]].site) = 1)
          => (resp'.status \in ErrorStatuses /\ UNCHANGED store)
     /\ (resp'.op = "deleteSection" /\ resp'.target[1] \in LiveSections
           /\ countSectionsOf(sections[resp'.target[1]].page) = 1)
          => (resp'.status \in ErrorStatuses /\ UNCHANGED store)
     /\ resp'.op \in {"deletePage", "deleteSection"} =>
          \A s \in DOMAIN sites :
            countPagesOf(s) >= 1 => Cardinality({i \in DOMAIN pages' :
                                       ~pages'[i].deleted /\ pages'[i].site = s}) >= 1]_vars

C5_Witness ==
  /\ resp.op = "deletePage"
  /\ resp.status = BadRequest
  /\ resp.target[1] \in LivePages
  /\ countPagesOf(pages[resp.target[1]].site) = 1
  /\ \E i \in DOMAIN pages : pages[i].deleted /\ pages[i].site = pages[resp.target[1]].site

C7_PaymentStatusMachine ==
  [][/\ \A i \in DOMAIN payments' \ DOMAIN payments : payments'[i].status = "pending"
     /\ \A i \in DOMAIN payments' : payments'[i].status \in PaymentStatus
     /\ \A i \in DOMAIN payments :
          (payments[i].status # "pending" /\ payments'[i].status # payments[i].status)
            => (payments[i].status = "completed" /\ payments'[i].status = "refunded")]_vars

\* C8: no two non-deleted Sites share a slug and no two non-deleted Pages of
\* the same Site share a slug.
C8_SlugsUnique ==
  /\ \A i, j \in LiveSites : sites[i].slug = sites[j].slug => i = j
  /\ \A i, j \in LivePages :
       (pages[i].site = pages[j].site /\ pages[i].slug = pages[j].slug) => i = j

\* C9: createSite, and duplicateSite of a site of one's own, by a user who
\* already owns maxSites sites answer Forbidden naming the limit and create
\* no Site and no Page; no user ever owns more than maxSites sites.
C9_SiteQuota ==
  [][/\ ((resp'.op = "createSite"
            \/ (resp'.op = "duplicateSite" /\ findOwnedSite(resp'.target[1], resp'.user)))
          /\ countSitesOf(resp'.user) >= maxSitesOf(resp'.user))
          => /\ resp'.status = Forbidden
             /\ resp'.limit = maxSitesOf(resp'.user)
             /\ UNCHANGED store
     /\ \A u \in Users :
          Cardinality({i \in DOMAIN sites' : ~sites'[i].deleted /\ sites'[i].owner = u})
            <= maxSitesOf(u)]_vars

C9_Witness ==
  /\ resp.op = "duplicateSite"
  /\ resp.status = Forbidden
  /\ resp.limit = maxSitesOf(resp.user)
  /\ countSitesOf(resp.user) = maxSitesOf(resp.user)

\* what the ownership chain of a single-item request resolves to
ChainMissing(r) ==
  IF r.op = "getSite" THEN r.target[1] \notin LiveSites
  ELSE IF r.op = "getPage"
  THEN r.target[1] \notin LivePages \/ pages[r.target[1]].site \notin LiveSites
  ELSE \/ r.target[1] \notin LiveSections
       \/ sections[r.target[1]].page \notin LivePages
       \/ pages[sections[r.target[1]].page].site \notin LiveSites

\* C10: a single-item operation answers NotFound when the target or an
\* ancestor up to the Site is missing or soft-deleted, Forbidden when the
\* Site's owner is not the principal, and proceeds only otherwise.
C10_ChainOutcome ==
  [][resp'.op \in {"getSite", "getPage", "getSection"} =>
       IF ChainMissing(resp') THEN resp'.status = NotFound
       ELSE IF NonOwnerRequest(resp') THEN resp'.status = Forbidden
       ELSE resp'.status = Ok]_vars

\* C11: processRefund is accepted only on a completed Payment and only for
\* 0 < amount <= the payment's amount; a partial refund keeps status completed
\* and records refundAmount, a full refund sets status refunded, and a rejected
\* refund throws and leaves the Payment as it was.
C11_RefundRules ==
  [][presp'.op = "processRefund" =>
       LET i == presp'.target
       IN IF presp'.status = Ok
          THEN /\ payments[i].status = "completed"
               /\ payments'[i].refundAmount \in 1..payments[i].amount
               /\ payments'[i].refunded
               /\ payments'[i].status = IF payments'[i].refundAmount = payments[i].amount
                                        THEN "refunded" ELSE "completed"
               /\ \A j \in DOMAIN payments : j # i => payments'[j] = payments[j]
          ELSE /\ presp'.status = "Error"
               /\ payments' = payments]_vars

C11_Witness ==
  /\ presp.op = "processRefund"
  /\ presp.status = Ok
  /\ payments[presp.target].status = "completed"
  /\ payments[presp.target].refundAmount = 1
  /\ payments[presp.target].amount = 2

\* C12: a request whose processor call fails creates no Payment and changes
\* no Payment's status, except that a failed confirmation records the payment
\* as failed with the error; a Payment is never recorded as failed in a step
\* in which the processor confirmed its intent.
C12_ExternalFailure ==
  [][(presp'.op \in {"createPaymentIntent", "createSubscription", "purchaseCredits",
                     "confirmPaymentIntent", "cancelSubscription"}
        /\ presp'.status # Ok)
       => /\ Len(payments') = Len(payments)
          /\ \A i \in DOMAIN payments :
               payments'[i].status # payments[i].status
                 => /\ presp'.op = "confirmPaymentIntent"
                    /\ payments'[i].status = "failed"
                    /\ payments'[i].error # NoFailure
                    /\ stripe'.intents = stripe.intents]_vars

MySite == <<"M","y"," ","S","i","t","e">>
MySiteSlug == <<"m","y","-","s","i","t","e">>
AlphaNumeric == Range(LowerSeq) \cup Range(DigitSeq)
\* the text after the candidate and its hyphen
SuffixOf(slug, cand) == SubSeq(slug, Len(cand) + 2, Len(slug))
HasSuffixForm(slug, cand) ==
  /\ Len(slug) >= Len(cand) + 1
  /\ SubSeq(slug, 1, Len(cand) + 1) = cand \o <<"-">>
  /\ Range(SuffixOf(slug, cand)) \subseteq AlphaNumeric
\* the site a successful createSite step stored, and the candidate of its name
Created(r) == r.op = "createSite" /\ r.status = Ok

\* C13 as stated: a Site created while its generated slug already exists gets
\* a different slug of the form <candidate>-XXXX with XXXX exactly 4
\* alphanumeric characters.
C13_FourCharSuffix ==
  [][(Created(resp') /\ siteSlugExists(generateSlug(sites'[resp'.data].name)))
       => LET cand == generateSlug(sites'[resp'.data].name)
              slug == sites'[resp'.data].slug
          IN /\ slug # cand
             /\ HasSuffixForm(slug, cand)
             /\ Len(SuffixOf(slug, cand)) = 4]_vars

\* C13 amended: such a Site gets <candidate>-X, X being the first six
\* base-36 digits of the random fraction (all of them when it has fewer), so
\* the slug differs from the existing one; without a collision the slug is
\* the candidate itself.
C13_SixDigitSuffix ==
  [][Created(resp')
       => LET cand == generateSlug(sites'[resp'.data].name)
              slug == sites'[resp'.data].slug
          IN IF siteSlugExists(cand)
             THEN /\ slug # cand
                  /\ HasSuffixForm(slug, cand)
                  /\ \E r \in RandomFractions :
                       SuffixOf(slug, cand) = SubSeq(r, 1, Min2(6, Len(r)))
             ELSE slug = cand]_vars

C13_Witness ==
  /\ Created(resp)
  /\ resp.data = 2
  /\ sites[1].name = MySite /\ sites[1].slug = MySiteSlug
  /\ sites[2].name = MySite
  /\ sites[2].slug = MySiteSlug \o <<"-","k","3","x","9","a","b">>

\* C14: reorderPages or reorderSections made a second time with the same id
\* list answers as the first time and leaves every order value as the first
\* application wrote it.
C14_ReorderIdempotent ==
  [][(repeated' /\ resp'.op \in {"reorderPages", "reorderSections"})
       => (resp'.status = resp.status /\ UNCHANGED store)]_vars

C14_Witness ==
  /\ repeated
  /\ resp.op = "reorderPages"
  /\ resp.status = Ok
  /\ resp.target = <<2, 1>>
  /\ pages[2].order = 0
  /\ pages[1].order = 1

BothDone == \A i \in Procs : procs[i].pc = "done"
BothAre(ops) == procs # <<>> /\ \A i \in Procs : procs[i].op \in ops

\* C15: when two requests that each set isHomepage = true on different pages
\* of one site run concurrently, the site does not end with more than one
\* non-deleted homepage.
C15_ConcurrentHomepage ==
  (/\ BothAre({"createPage", "updatePage"})
   /\ (BothAre({"updatePage"}) => procs[1].target # procs[2].target)
   /\ BothDone)
    => Cardinality(HomepagesOf(1)) <= 1

IsFullList(ids) == Len(ids) = Cardinality(PagesOf(1)) /\ Range(ids) = PagesOf(1)
WrittenBy(ids) == \A k \in DOMAIN ids : pages[ids[k]].order = k - 1

\* C16: when two reorderPages requests over the full page set of one site run
\* concurrently, the final order values are those one of the two requests
\* alone would have written, a dense 0..N-1 sequence without duplicates.
C16_ConcurrentReorder ==
  (/\ BothAre({"reorderPages"})
   /\ \A i \in Procs : IsFullList(procs[i].list) /\ procs[i].status = Ok
   /\ BothDone)
    => /\ \E i \in Procs : WrittenBy(procs[i].list)
       /\ {pages[j].order : j \in PagesOf(1)} = 0..(Cardinality(PagesOf(1)) - 1)

\* C17: when two deletePage requests for the two pages of a site that has
\* exactly two pages run concurrently, at least one is rejected and the site
\* keeps at least one non-deleted page.
C17_ConcurrentDelete ==
  (/\ BothAre({"deletePage"})
   /\ procs[1].target # procs[2].target
   /\ BothDone)
    => /\ \E i \in Procs : procs[i].status \in ErrorStatuses
       /\ countPagesOf(1) >= 1

\* the slug a renamed row must get: the candidate of its new title, or the
\* candidate with a suffix when another member of the scope holds it
Regenerated(slug, cand, taken) ==
  IF taken THEN slug # cand /\ HasSuffixForm(slug, cand) ELSE slug = cand

\* C18: updatePage (updateSite) with a title (name) that differs from the
\* stored one regenerates the slug from the new title, resolving a collision
\* against the other members of the scope; with an equal title the slug is
\* left unchanged.
C18_SlugFollowsTitle ==
  [][/\ (resp'.op = "updatePage" /\ resp'.status = Ok)
          => LET id == resp'.target[1]
                 cand == generateSlug(pages'[id].title)
             IN IF pages'[id].title # pages[id].title
                THEN Regenerated(pages'[id].slug, cand,
                       \E j \in PagesOf(pages[id].site) \ {id} : pages[j].slug = cand)
                ELSE pages'[id].slug = pages[id].slug
     /\ (resp'.op = "updateSite" /\ resp'.status = Ok)
          => LET id == resp'.target[1]
                 cand == generateSlug(sites'[id].name)
             IN IF sites'[id].name # sites[id].name
                THEN Regenerated(sites'[id].slug, cand,
                       \E j \in LiveSites \ {id} : sites[j].slug = cand)
                ELSE sites'[id].slug = sites[id].slug]_vars

NewPagesOf(before, after) == (DOMAIN after) \ (DOMAIN before)

ForeignIntent(u, id) ==
  id \in DOMAIN stripe.intents /\ stripe.intents[id].customer # u
ForeignSubscription(u, id) ==
  id \in DOMAIN stripe.subs /\ stripe.subs[id].customer # u

\* C20: confirmPaymentIntent, cancelSubscription and updateSubscription on an
\* external object whose customer is not the principal's, with no processor
\* call failing, are answered Forbidden (403) and change neither the external
\* object nor any local Payment.
C20_ForeignObjectForbidden ==
  [][/\ \A u \in Users, id \in IntentIds, pm \in BOOLEAN, save \in BOOLEAN,
           e \in StripeErrorTypes, c \in IntentStatuses :
          (ForeignIntent(u, id)
             /\ PayStep(confirmPaymentIntent(u, id, pm, save, NoFailure, e, c)))
            => (presp'.status = Forbidden /\ UNCHANGED <<payments, stripe>>)
     /\ \A u \in Users, id \in SubscriptionIds, pe \in BOOLEAN :
          (ForeignSubscription(u, id)
             /\ PayStep(cancelSubscription(u, id, pe, NoFailure)))
            => (presp'.status = Forbidden /\ UNCHANGED <<payments, stripe>>)
     /\ \A u \in Users, id \in SubscriptionIds, pc \in BOOLEAN, v \in BOOLEAN :
          (ForeignSubscription(u, id)
             /\ PayStep(updateSubscription(u, id, pc, v, NoFailure)))
            => (presp'.status = Forbidden /\ UNCHANGED <<payments, stripe>>)]_vars

\* C21: createPage without an explicit order gives the new page an order
\* greater than the order of every existing page of that site; with an
\* explicit order it stores that order.
C21_CreatePageOrder ==
  [][\A u \in Users, s \in SiteIds, t \in PageTitles, h \in Opt(BOOLEAN),
        o \in Opt(Orders), r \in RandomDigits :
       (Step(createPage(u, s, t, h, o, r)) /\ resp'.status = Ok)
         => IF o = Undefined
            THEN \A p \in PagesOf(s) : pages'[resp'.data].order > pages[p].order
            ELSE pages'[resp'.data].order = o[1]]_vars

\* C22: deletePage of the homepage of a site with other remaining pages
\* marks as the new homepage the remaining page of the same site with the
\* lowest order.
C22_LowestOrderPromoted ==
  [][(resp'.op = "deletePage" /\ resp'.status = Ok
        /\ pages[resp'.target[1]].isHomepage)
       => LET id == resp'.target[1]
              others == PagesOf(pages[id].site) \ {id}
          IN \A p \in others :
               (pages'[p].isHomepage /\ ~pages[p].isHomepage)
                 => \A q \in others : pages[p].order <= pages[q].order]_vars

\* the rows present before a request are the same after it
SourceKept == 
  /\ \A i \in DOMAIN sites : sites'[i] = sites[i]
  /\ \A i \in DOMAIN pages : pages'[i] = pages[i]
  /\ \A i \in DOMAIN sections : sections'[i] = sections[i]
\* the sections of page p after a request that were not there before it
NewSectionsOn(p) ==
  {i \in NewPagesOf(sections, sections') : sections'[i].page = p}

\* C23: duplicatePage and duplicateSite leave the source entity and all of
\* its descendants unchanged (same ids, same parent, same fields) and create
\* under the new entity exactly one copy per source descendant when
\* duplicateContent is true and no descendant when it is false.
C23_DuplicateFrame ==
  [][/\ \A u \in Users, id \in PageIds, t \in PageTitles, dc \in BOOLEAN,
           r \in RandomDigits :
          (Step(duplicatePage(u, id, t, dc, r)) /\ resp'.status = Ok)
            => /\ SourceKept
               /\ Cardinality({i \in DOMAIN sections' : sections'[i].page = resp'.data})
                    = IF dc THEN Cardinality(SectionsOf(id)) ELSE 0
     /\ \A u \in Users, id \in SiteIds, n \in SiteNames, dc \in BOOLEAN,
           r \in RandomDigits :
          (Step(duplicateSite(u, id, n, dc, r)) /\ resp'.status = Ok)
            => /\ SourceKept
               /\ Cardinality({i \in DOMAIN pages' : pages'[i].site = resp'.data})
                    = IF dc THEN Cardinality(PagesOf(id)) ELSE 0]_vars

\* calendar arithmetic by counting days
NextDay(t) ==
  IF t.d < daysIn(t.y, t.m) THEN [t EXCEPT !.d = @ + 1]
  ELSE IF t.m < 11 THEN [y |-> t.y, m |-> t.m + 1, d |-> 1]
  ELSE [y |-> t.y + 1, m |-> 0, d |-> 1]
RECURSIVE AddDays(_, _)
AddDays(t, n) == IF n = 0 THEN t ELSE AddDays(NextDay(t), n - 1)
\* one day, one week, the length of the current month, the same day of the
\* next year (the day after it when that day does not exist)
OnePeriodAfter(frequency, t) ==
  CASE frequency = "daily" -> AddDays(t, 1)
    [] frequency = "weekly" -> AddDays(t, 7)
    [] frequency = "monthly" -> AddDays(t, daysIn(t.y, t.m))
    [] frequency = "yearly" ->
         IF t.m = 1 /\ t.d = 29 /\ ~isLeap(t.y + 1)
         THEN [y |-> t.y + 1, m |-> 2, d |-> 1]
         ELSE [t EXCEPT !.y = @ + 1]
ResetDue ==
  /\ ledger.resetFrequency # "never"
  /\ ledger.nextResetAt # NoDate
  /\ DateGE(now, ledger.nextResetAt)

\* C24: resetCreditsIfNeeded at time now: when resetFrequency is not never
\* and now >= nextResetAt it sets usedCredits to 0, lastResetAt to now, moves
\* nextResetAt one configured period past now, to a value greater than now,
\* and returns true; otherwise it returns false and changes nothing; credits
\* is never changed, and a second call at the same time returns false.
C24_ResetRules ==
  [][cresp'.op = "resetCreditsIfNeeded" =>
       /\ ledger'.credits = ledger.credits
       /\ IF ResetDue
          THEN /\ cresp'.result = TRUE
               /\ ledger' = [ledger EXCEPT
                    !.usedCredits = 0,
                    !.lastResetAt = now,
                    !.nextResetAt = OnePeriodAfter(ledger.resetFrequency, now)]
               /\ ~DateGE(now, ledger'.nextResetAt)
          ELSE cresp'.result = FALSE /\ ledger' = ledger
       /\ cresp.op = "resetCreditsIfNeeded" => cresp'.result = FALSE]_vars

C24_Witness ==
  /\ cresp.op = "resetCreditsIfNeeded"
  /\ cresp.result = TRUE
  /\ ledger.resetFrequency = "monthly"
  /\ ledger.credits > 0
  /\ ledger.usedCredits = 0
  /\ ledger.lastResetAt = MakeDate(2024, 0, 31)
  /\ ledger.nextResetAt = MakeDate(2024, 2, 2)

\* C25: transferOwnership succeeds only when the new owner exists, differs
\* from the principal and owns fewer sites than their maxSites; on success
\* the Site's owner is the new owner and nothing else changes, and a request
\* on a site by a principal who is not (or no longer) its owner is refused;
\* on any failure the store is unchanged.
C25_TransferOwnership ==
  [][/\ resp'.op = "transferOwnership" =>
          IF resp'.status = Ok
          THEN LET id == resp'.target[1]
                   newOwner == sites'[id].owner
               IN /\ sites[id].owner = resp'.user
                  /\ newOwner \in Users
                  /\ newOwner # resp'.user
                  /\ countSitesOf(newOwner) < maxSitesOf(newOwner)
                  /\ sites' = [sites EXCEPT ![id].owner = newOwner]
                  /\ UNCHANGED <<pages, sections>>
          ELSE UNCHANGED store
     /\ NonOwnerRequest(resp') => resp'.status \in ErrorStatuses]_vars

C25_Witness ==
  /\ resp.op = "transferOwnership"
  /\ resp.status = Ok
  /\ sites[resp.target[1]].owner # resp.user
  /\ countSitesOf(sites[resp.target[1]].owner) = maxSitesOf(sites[resp.target[1]].owner)

\* what a shallow merge of supplied into stored leaves in merged
ShallowMerged(stored, supplied, merged) ==
  /\ DOMAIN merged = (DOMAIN stored) \cup (DOMAIN supplied)
  /\ \A k \in DOMAIN supplied : merged[k] = supplied[k]
  /\ \A k \in (DOMAIN stored) \ (DOMAIN supplied) : merged[k] = stored[k]
\* field f of row after is as in before unless the request carries input
KeptUnless(input, before, after, f) == input = Undefined => after[f] = before[f]

SlugChars == Range(LowerSeq) \cup Range(DigitSeq) \cup {"-"}
NoDoubleHyphen(s) == \A i \in 1..(Len(s) - 1) : ~(s[i] = "-" /\ s[i + 1] = "-")
NoEdgeHyphen(s) == s = <<>> \/ (s[1] # "-" /\ s[Len(s)] # "-")

\* C27: for every input string the output of generateSlug contains only
\* characters from [a-z0-9-], has no two consecutive hyphens, and neither
\* starts nor ends with a hyphen.
C27_SlugWellFormed ==
  \A i \in DOMAIN sites :
    LET out == generateSlug(sites[i].name)
    IN /\ Range(out) \subseteq SlugChars
       /\ NoDoubleHyphen(out)
       /\ NoEdgeHyphen(out)

\* the refresh-token handler would accept token in this state
Accepted(token) ==
  /\ verifyToken(token)
  /\ token.userId \in Users
  /\ redis[token.userId] = token

\* C28: for each user at most one refresh token is accepted at any time; a
\* token presented in a successful refresh is never accepted again; after
\* logout or reset-password no previously issued refresh token is accepted
\* until the user logs in again.
C28_RefreshTokenSingleUse ==
  /\ \A u \in Users : Cardinality({t \in IssuedTo(u) : Accepted(t)}) <= 1
  /\ \A t \in spent : ~Accepted(t)
  /\ \A t \in revoked : ~Accepted(t)

\* C29: over any sequence of processRefund calls on one Payment, the total
\* amount refunded across the accepted calls never exceeds the payment's
\* amount; in particular an accepted refund and the accepted refund recorded
\* before it together stay within the amount.
C29_RefundTotalBounded ==
  [][(presp'.op = "processRefund" /\ presp'.status = Ok)
       => LET i == presp'.target
          IN payments[i].refundAmount + payments'[i].refundAmount <= payments[i].amount]_vars

\* C30: applyCoupon reports valid = true exactly when the processor marks the
\* coupon valid, its redeem_by (if set) is later than now and its
\* times_redeemed is below max_redemptions (if set); when the coupon cannot be
\* retrieved it reports valid = false.
C30_CouponValidity ==
  presp.op = "applyCoupon" =>
    IF presp.coupon = Undefined THEN presp.valid = FALSE
    ELSE LET coupon == presp.coupon[1]
         IN presp.valid <=>
              /\ coupon.valid
              /\ (coupon.redeem_by # Undefined => coupon.redeem_by[1] > clock)
              /\ (coupon.max_redemptions # Undefined
                    => coupon.times_redeemed < coupon.max_redemptions[1])

=============================================================================
